---- MODULE Spec2Model ----
(***************************************************************************)
(* Model of the "Slow LLM Coding Agent" front-end core:                    *)
(*   - the Zustand project store (stores/projectStore.ts, second version), *)
(*   - the code view's diff highlighting (CodeViewer.applyDiffHighlights), *)
(*   - the diff calculator documented for course authoring                 *)
(*     (docs/features/feature-diff-visualization.md, DiffCalculator).      *)
(***************************************************************************)
EXTENDS Integers, Sequences, FiniteSets, TLC

----------------------------------------------------------------------------
(* Bounds of the model *)

\* jumpToState is tried with every index from -MaxOvershoot up to the longest
\* project's length - 1 + MaxOvershoot.
MaxOvershoot == 1

\* Total number of chat messages the store holds in the model.
MaxMessages == 1

\* Texts given to the diff calculator have at most MaxTextLen characters.
MaxTextLen == 3

\* a chat message is sent from the App while the store holds fewer messages
\* than this, those of the requests in flight not counted
MaxFlowMessages == 1

\* messages added in a run of the chat history specification
MaxChatMessages == 3

\* The code given to a CodeViewer on its own has at most this many characters.
MaxViewerCodeLen == 3

----------------------------------------------------------------------------
(* Values *)

\* null where a string is stored (currentProject's key, error)
NULL == "null"

\* null and undefined where an object is stored (Diff | null, CodeState)
NullObject == [nil |-> "null"]
UNDEFINED == [nil |-> "undefined"]

Speeds == {"low", "medium", "high"}

\* A text is a sequence of one-character strings.
Chars == {"a", "b", " ", "\n"}

RECURSIVE TextsUpTo(_)
TextsUpTo(n) ==
    IF n = 0 THEN {<< >>}
    ELSE LET shorter == TextsUpTo(n - 1)
         IN  shorter \cup {Append(t, c) : t \in {s \in shorter : Len(s) = n - 1}, c \in Chars}

Range(s) == {s[i] : i \in 1..Len(s)}

----------------------------------------------------------------------------
(* String helpers: String.prototype.split('\n'), String.prototype.trim(),   *)
(* Array.prototype.join('\n')                                               *)

RECURSIVE Split(_)
Split(text) ==
    IF \A i \in 1..Len(text) : text[i] # "\n"
    THEN << text >>
    ELSE LET k == CHOOSE i \in 1..Len(text) :
                      text[i] = "\n" /\ \A j \in 1..(i - 1) : text[j] # "\n"
         IN  << SubSeq(text, 1, k - 1) >> \o Split(SubSeq(text, k + 1, Len(text)))

IsSpace(c) == c \in {" ", "\n"}

RECURSIVE TrimStart(_)
TrimStart(line) ==
    IF line # << >> /\ IsSpace(Head(line)) THEN TrimStart(Tail(line)) ELSE line

RECURSIVE TrimEnd(_)
TrimEnd(line) ==
    IF line # << >> /\ IsSpace(line[Len(line)])
    THEN TrimEnd(SubSeq(line, 1, Len(line) - 1))
    ELSE line

Trim(line) == TrimEnd(TrimStart(line))

RECURSIVE Join(_)
Join(lines) ==
    IF lines = << >> THEN << >>
    ELSE IF Len(lines) = 1 THEN lines[1]
    ELSE lines[1] \o << "\n" >> \o Join(Tail(lines))

----------------------------------------------------------------------------
(* Project data (data/projects/greeter.json, calculator.json)              *)

GreeterStates == 7
CalculatorStates == 13

Letters == << "a", "b", "c", "d", "e", "f", "g", "h", "i", "j", "k", "l", "m" >>

\* The line a tutorial step adds; every second one is indented.
CodeLine(j) == IF j % 2 = 1 THEN << " ", " ", Letters[j + 1] >> ELSE << Letters[j + 1] >>

\* An explanation text, as a sequence of tokens; one of them is authored empty.
ExplanationText(pid, i, sp) ==
    IF pid = "greeter" /\ i = 2 /\ sp = "low" THEN << >> ELSE << pid, i, sp >>

\* CodeState number i (0-based) of a project: the code so far, the diff
\* against the previous state (null for the first state) and the three
\* explanation texts.
CodeState(pid, i) ==
    [ id    |-> i,
      code  |-> Join([j \in 1..(i + 1) |-> CodeLine(j - 1)]),
      diff  |-> IF i = 0 THEN NullObject
                ELSE [added |-> << CodeLine(i) >>, removed |-> << >>],
      speedExplanations |-> [sp \in Speeds |-> ExplanationText(pid, i, sp)] ]

\* The states array with ids 0..n-1
RECURSIVE MakeStates(_, _)
MakeStates(pid, n) ==
    IF n = 0 THEN << >> ELSE Append(MakeStates(pid, n - 1), CodeState(pid, n - 1))

MakeProject(pid, n) ==
    [ id |-> pid, name |-> pid, states |-> MakeStates(pid, n) ]

greeterProject == MakeProject("greeter", GreeterStates)
calculatorProject == MakeProject("calculator", CalculatorStates)

\* const projects: Record<string, Project>
projects == [greeter |-> greeterProject, calculator |-> calculatorProject]

\* array[i] with a 0-based index; undefined outside the array
ArrayAt(array, i) ==
    IF i \in 0..(Len(array) - 1) THEN array[i + 1] ELSE UNDEFINED

\* project.states[i]
StateAt(pid, i) == ArrayAt(projects[pid].states, i)

StatesLength(pid) == Len(projects[pid].states)

----------------------------------------------------------------------------
(* Store state (interface ProjectStore) and session state                  *)

VARIABLES
    currentProject,     \* NULL or a key of projects (the loaded Project)
    currentStateIndex,  \* the cursor
    isLoading,
    error,              \* NULL or an error text
    speed,
    showDiff,
    chatHistory,        \* Map<number, ChatMessage[]>: function stateId -> messages
    decorations,        \* CodeViewer: line numbers currently decorated as added
    lastOp,             \* the store operation called last and its argument
    storage,            \* localStorage item 'slow-llm-coder-settings' (NoItem: none)
    pending,            \* the chat requests in flight, oldest first
    askCall,            \* askClaude: the call and what it meets (NoCall: none)
    askResult,          \* askClaude: how the returned promise settled
    viewer,             \* a CodeViewer on its own: its props and editor (NoViewer: none)
    previousCode,       \* DiffCalculator.CalculateDiff: first argument
    currentCode,        \* DiffCalculator.CalculateDiff: second argument
    diffResult,         \* NULL or the value CalculateDiff returned
    diffPc              \* "idle" | "ready" | "done"

storeVars == << currentProject, currentStateIndex, isLoading, error, speed,
                showDiff, chatHistory >>
diffVars == << previousCode, currentCode, diffResult, diffPc >>
claudeVars == << askCall, askResult >>
vars == << currentProject, currentStateIndex, isLoading, error, speed, showDiff,
           chatHistory, decorations, lastOp, storage, pending,
           askCall, askResult, viewer,
           previousCode, currentCode, diffResult, diffPc >>

\* The store's data fields as one record.
Store ==
    [ currentProject    |-> currentProject,
      currentStateIndex |-> currentStateIndex,
      isLoading         |-> isLoading,
      error             |-> error,
      speed             |-> speed,
      showDiff          |-> showDiff,
      chatHistory       |-> chatHistory ]

\* new Map()
EmptyMap == << >>

\* const defaultPreferences
defaultPreferences == [speed |-> "medium", showDiff |-> TRUE]

\* Initial State of the store
InitialStore ==
    [ currentProject    |-> NULL,
      currentStateIndex |-> 0,
      isLoading         |-> FALSE,
      error             |-> NULL,
      speed             |-> defaultPreferences.speed,
      showDiff          |-> defaultPreferences.showDiff,
      chatHistory       |-> EmptyMap ]

----------------------------------------------------------------------------
(* Store actions, as functions from the store state to the next one        *)

\* `Project not found: ${projectId}`
NotFound(projectId) ==
    CASE projectId = "missing" -> "Project not found: missing"
      [] OTHER -> "Project not found"

\* loadProject that keeps the cursor where it was
loadProject_keepCursor(s, projectId) ==
    IF projectId \in DOMAIN projects
    THEN [s EXCEPT !.currentProject = projectId,
                   !.chatHistory = EmptyMap,
                   !.error = NULL]
    ELSE [s EXCEPT !.error = NotFound(projectId)]

\* loadProject that only logs an unknown id and records no error
loadProject_logOnly(s, projectId) ==
    IF projectId \in DOMAIN projects
    THEN [s EXCEPT !.currentProject = projectId,
                   !.currentStateIndex = 0,
                   !.chatHistory = EmptyMap,
                   !.error = NULL]
    ELSE s

\* loadProject that starts the new project with the default preferences
loadProject_resetPreferences(s, projectId) ==
    IF projectId \in DOMAIN projects
    THEN [s EXCEPT !.currentProject = projectId,
                   !.currentStateIndex = 0,
                   !.chatHistory = EmptyMap,
                   !.error = NULL,
                   !.speed = defaultPreferences.speed,
                   !.showDiff = defaultPreferences.showDiff]
    ELSE [s EXCEPT !.error = NotFound(projectId)]

\* loadProject that does nothing when the requested project is the loaded one
loadProject_skipLoaded(s, projectId) ==
    IF projectId \in DOMAIN projects
    THEN IF s.currentProject = projectId THEN s
         ELSE [s EXCEPT !.currentProject = projectId,
                        !.currentStateIndex = 0,
                        !.chatHistory = EmptyMap,
                        !.error = NULL]
    ELSE [s EXCEPT !.error = NotFound(projectId)]

\* loadProject reading the record of projects given as catalogue
loadProjectIn(catalogue, s, projectId) ==
    IF projectId \in DOMAIN catalogue
    THEN [s EXCEPT !.currentProject = projectId,
                   !.currentStateIndex = 0,
                   !.chatHistory = EmptyMap,
                   !.error = NULL]
    ELSE [s EXCEPT !.error = NotFound(projectId)]

loadProject(s, projectId) == loadProjectIn(projects, s, projectId)

\* setLoading that also rewinds the cursor
setLoading_rewind(s, loading) ==
    [s EXCEPT !.isLoading = loading, !.currentStateIndex = 0]

setLoading(s, loading) == [s EXCEPT !.isLoading = loading]

setError(s, e) == [s EXCEPT !.error = e]

\* nextState whose boundary test is off by one
nextState_offByOne(s) ==
    IF s.currentProject # NULL
       /\ s.currentStateIndex <= StatesLength(s.currentProject) - 1
    THEN [s EXCEPT !.currentStateIndex = s.currentStateIndex + 1]
    ELSE s

\* nextState that stops one state before the last
nextState_stopsEarly(s) ==
    IF s.currentProject # NULL
       /\ s.currentStateIndex < StatesLength(s.currentProject) - 2
    THEN [s EXCEPT !.currentStateIndex = s.currentStateIndex + 1]
    ELSE s

\* nextState that steps onto the index one past the last state
nextStateIn_pastEnd(catalogue, s) ==
    IF s.currentProject # NULL
       /\ s.currentStateIndex < Len(catalogue[s.currentProject].states)
    THEN [s EXCEPT !.currentStateIndex = s.currentStateIndex + 1]
    ELSE s

\* nextState with currentProject an entry of the given catalogue
nextStateIn(catalogue, s) ==
    IF s.currentProject # NULL
       /\ s.currentStateIndex < Len(catalogue[s.currentProject].states) - 1
    THEN [s EXCEPT !.currentStateIndex = s.currentStateIndex + 1]
    ELSE s

nextState(s) == nextStateIn(projects, s)

\* prevState whose boundary test is off by one
prevState_offByOne(s) ==
    IF s.currentStateIndex >= 0
    THEN [s EXCEPT !.currentStateIndex = s.currentStateIndex - 1]
    ELSE s

prevState(s) ==
    IF s.currentStateIndex > 0
    THEN [s EXCEPT !.currentStateIndex = s.currentStateIndex - 1]
    ELSE s

\* jumpToState whose upper boundary test is off by one
jumpToState_offByOne(s, index) ==
    IF s.currentProject # NULL /\ index >= 0 /\ index <= StatesLength(s.currentProject)
    THEN [s EXCEPT !.currentStateIndex = index]
    ELSE s

\* jumpToState that clamps an out-of-range index instead of ignoring it
jumpToState_clamp(s, index) ==
    IF s.currentProject = NULL THEN s
    ELSE IF index < 0 THEN [s EXCEPT !.currentStateIndex = 0]
    ELSE IF index >= StatesLength(s.currentProject)
         THEN [s EXCEPT !.currentStateIndex = StatesLength(s.currentProject) - 1]
    ELSE [s EXCEPT !.currentStateIndex = index]

\* jumpToState with currentProject an entry of the given catalogue
jumpToStateIn(catalogue, s, index) ==
    IF s.currentProject # NULL /\ index >= 0
       /\ index < Len(catalogue[s.currentProject].states)
    THEN [s EXCEPT !.currentStateIndex = index]
    ELSE s

jumpToState(s, index) == jumpToStateIn(projects, s, index)

setSpeed(s, sp) == [s EXCEPT !.speed = sp]

setShowDiff(s, show) == [s EXCEPT !.showDiff = show]

toggleDiff(s) == [s EXCEPT !.showDiff = ~s.showDiff]

\* chatHistory.get(stateId) || []
getChatMessagesOf(history, stateId) ==
    IF stateId \in DOMAIN history THEN history[stateId] ELSE << >>

\* addChatMessage that puts the new message first
addChatMessage_prepend(s, stateId, message) ==
    LET stateMessages == getChatMessagesOf(s.chatHistory, stateId)
        newHistory == [k \in (DOMAIN s.chatHistory) \cup {stateId} |->
                          IF k = stateId THEN << message >> \o stateMessages
                          ELSE s.chatHistory[k]]
    IN  [s EXCEPT !.chatHistory = newHistory]

addChatMessage(s, stateId, message) ==
    LET stateMessages == getChatMessagesOf(s.chatHistory, stateId)
        newHistory == [k \in (DOMAIN s.chatHistory) \cup {stateId} |->
                          IF k = stateId THEN Append(stateMessages, message)
                          ELSE s.chatHistory[k]]
    IN  [s EXCEPT !.chatHistory = newHistory]

clearChatHistory(s) == [s EXCEPT !.chatHistory = EmptyMap]

----------------------------------------------------------------------------
(* Computed getters                                                        *)

\* getCurrentState with currentProject an entry of the given catalogue
getCurrentStateIn(catalogue, s) ==
    IF s.currentProject = NULL THEN NullObject
    ELSE ArrayAt(catalogue[s.currentProject].states, s.currentStateIndex)

getCurrentState(s) == getCurrentStateIn(projects, s)

\* the empty string ''
EmptyString == << >>

\* value || '': the empty string for undefined and for the empty string
OrEmpty(value) ==
    IF value = UNDEFINED \/ value = EmptyString THEN EmptyString ELSE value

\* getExplanation that falls back to the medium text when the level's is empty
getExplanation_fallback(s) ==
    IF s.currentProject = NULL THEN EmptyString
    ELSE LET state == StateAt(s.currentProject, s.currentStateIndex)
             text == IF state = UNDEFINED THEN UNDEFINED
                     ELSE state.speedExplanations[s.speed]
         IN  IF text = UNDEFINED \/ text = EmptyString
             THEN OrEmpty(IF state = UNDEFINED THEN UNDEFINED
                          ELSE state.speedExplanations["medium"])
             ELSE text

\* getExplanation with currentProject an entry of the given catalogue
getExplanationIn(catalogue, s) ==
    IF s.currentProject = NULL THEN EmptyString
    ELSE LET state == ArrayAt(catalogue[s.currentProject].states, s.currentStateIndex)
         IN  OrEmpty(IF state = UNDEFINED THEN UNDEFINED
                     ELSE state.speedExplanations[s.speed])

getExplanation(s) == getExplanationIn(projects, s)

getChatMessages(s, stateId) == getChatMessagesOf(s.chatHistory, stateId)

\* getTotalStates with currentProject an entry of the given catalogue
getTotalStatesIn(catalogue, s) ==
    IF s.currentProject = NULL THEN 0 ELSE Len(catalogue[s.currentProject].states)

getTotalStates(s) == getTotalStatesIn(projects, s)

isFirstState(s) == s.currentStateIndex = 0

\* isLastState that reports "not last" while no project is loaded
isLastState_noProject(s) ==
    IF s.currentProject = NULL THEN FALSE
    ELSE s.currentStateIndex = StatesLength(s.currentProject) - 1

isLastState(s) ==
    IF s.currentProject = NULL THEN TRUE
    ELSE s.currentStateIndex = StatesLength(s.currentProject) - 1

----------------------------------------------------------------------------
(* Navigation controls (StateNavigator, rendered once a project is loaded) *)

\* isFirst: the Prev button is disabled
NavigatorIsFirst(s) == s.currentStateIndex = 0

\* isLast: the Next button is disabled
NavigatorIsLast(s) == s.currentStateIndex = StatesLength(s.currentProject) - 1

----------------------------------------------------------------------------
(* Persisted preferences (persist middleware, localStorage)                *)

\* localStorage.getItem(name) when nothing was stored
NoItem == << >>

\* partialize that forgets showDiff
partialize_speedOnly(s) == [speed |-> s.speed]

\* partialize that also keeps the cursor
partialize_withCursor(s) ==
    [speed |-> s.speed, showDiff |-> s.showDiff,
     currentStateIndex |-> s.currentStateIndex]

\* partialize: only the user preferences are persisted
partialize(s) == [speed |-> s.speed, showDiff |-> s.showDiff]

\* JSON text of one field's value: a quoted string, a boolean literal or a
\* number
EncodeField(key, value) ==
    IF key = "showDiff" THEN (IF value THEN "true" ELSE "false")
    ELSE IF key = "currentStateIndex" THEN ToString(value)
    ELSE CASE value = "low" -> "\"low\""
           [] value = "medium" -> "\"medium\""
           [] value = "high" -> "\"high\""

DecodeField(key, text) ==
    IF key = "showDiff" THEN text = "true"
    ELSE IF key = "currentStateIndex"
    THEN CHOOSE n \in 0..CalculatorStates : ToString(n) = text
    ELSE CASE text = "\"low\"" -> "low"
           [] text = "\"medium\"" -> "medium"
           [] text = "\"high\"" -> "high"

\* the keys a persisted object may hold, in the order they are written
PersistedKeys == << "speed", "showDiff", "currentStateIndex" >>

\* JSON.stringify of the partialized state: the key and value texts in order
RECURSIVE StringifyFrom(_, _)
StringifyFrom(partial, k) ==
    IF k > Len(PersistedKeys) THEN << >>
    ELSE (IF PersistedKeys[k] \in DOMAIN partial
          THEN << PersistedKeys[k], EncodeField(PersistedKeys[k], partial[PersistedKeys[k]]) >>
          ELSE << >>)
         \o StringifyFrom(partial, k + 1)

\* storage.setItem(name, { state: partialize(state) })
setItem(s) == StringifyFrom(partialize(s), 1)

\* JSON.parse of a stored item: the object with the stored keys
ParseItem(item) ==
    [key \in {item[2 * k - 1] : k \in 1..(Len(item) \div 2)} |->
        LET k == CHOOSE j \in 1..(Len(item) \div 2) : item[2 * j - 1] = key
        IN  DecodeField(key, item[2 * k])]

\* merge: { ...currentState, ...persistedState }
Merge(s, persisted) ==
    [field \in DOMAIN s |-> IF field \in DOMAIN persisted THEN persisted[field] ELSE s[field]]

\* creation of the store that ignores what is stored
Hydrate_defaults(item) == InitialStore

\* creation of the store on application start: the initial state, with the
\* stored preferences merged over it when an item is stored; the result is
\* written back to the storage
Hydrate(item) ==
    IF item = NoItem THEN InitialStore ELSE Merge(InitialStore, ParseItem(item))

----------------------------------------------------------------------------
(* Code view (CodeViewer)                                                  *)

\* the forEach loop comparing the line and the entries as they are
RECURSIVE HighlightFrom_untrimmed(_, _, _)
HighlightFrom_untrimmed(lines, added, index) ==
    IF index >= Len(lines) THEN << >>
    ELSE LET hit == \E k \in 1..Len(added) : added[k] = lines[index + 1]
         IN  (IF hit THEN << index + 1 >> ELSE << >>)
                 \o HighlightFrom_untrimmed(lines, added, index + 1)

\* lines.forEach((line, index) => ...): the line numbers (index + 1) of the
\* lines whose trimmed text equals the trimmed text of an entry of diff.added
RECURSIVE HighlightFrom(_, _, _)
HighlightFrom(lines, added, index) ==
    IF index >= Len(lines) THEN << >>
    ELSE LET trimmedLine == Trim(lines[index + 1])
             hit == \E k \in 1..Len(added) : Trim(added[k]) = trimmedLine
         IN  (IF hit THEN << index + 1 >> ELSE << >>)
                 \o HighlightFrom(lines, added, index + 1)

\* applyDiffHighlights taking a missing diff for "every line is new"
applyDiffHighlights_allAdded(code, diff) ==
    IF diff # NullObject THEN HighlightFrom(Split(code), diff.added, 0)
    ELSE [k \in 1..Len(Split(code)) |-> k]

applyDiffHighlights(code, diff) ==
    IF diff # NullObject THEN HighlightFrom(Split(code), diff.added, 0) ELSE << >>

\* App: the CodeViewer is rendered only when a project and a current state
\* exist; it gets code={currentState.code} diff={currentState.diff}.
ViewerMounted(s) ==
    /\ s.currentProject # NULL
    /\ s.currentStateIndex \in 0..(StatesLength(s.currentProject) - 1)

ViewerCode(s) == getCurrentState(s).code

ViewerDiff(s) == getCurrentState(s).diff

\* an effect without dependencies on the props: it never runs again
SameProps_always(old, new) == TRUE

\* useEffect(..., [diff, code]): the effect runs again when the diff object
\* or the code string handed to the viewer is another one
SameProps(old, new) ==
    \/ /\ old.currentProject = new.currentProject
       /\ old.currentStateIndex = new.currentStateIndex
    \/ /\ ViewerCode(old) = ViewerCode(new)
       /\ ViewerDiff(old) = NullObject
       /\ ViewerDiff(new) = NullObject

\* applyDiffHighlights() for the props each state of each project gives
\* the viewer, computed once
RECURSIVE HighlightsUpTo(_, _)
HighlightsUpTo(pid, n) ==
    IF n = 0 THEN << >>
    ELSE Append(HighlightsUpTo(pid, n - 1),
                applyDiffHighlights(StateAt(pid, n - 1).code, StateAt(pid, n - 1).diff))

viewerHighlights ==
    [pid \in DOMAIN projects |-> HighlightsUpTo(pid, StatesLength(pid))]

\* The decorations after the store went from old to new and the App
\* re-rendered: set on mount, and by the effect when diff or code changed.
Render(old, new, oldDecorations) ==
    IF ~ViewerMounted(new) THEN << >>
    ELSE IF ViewerMounted(old) /\ SameProps(old, new)
         THEN oldDecorations
         ELSE viewerHighlights[new.currentProject][new.currentStateIndex + 1]

----------------------------------------------------------------------------
(* Diff calculator (Services/DiffCalculator.cs)                            *)

\* previousLines.Contains(line)
Contains(lines, line) == \E k \in 1..Len(lines) : lines[k] = line

\* for (int i = 0; i < currentLines.Count; i++) ...: the 1-indexed numbers
\* of the added lines, in the order the loop appends them
RECURSIVE AddedFrom(_, _, _)
AddedFrom(previousLines, currentLines, i) ==
    IF i >= Len(currentLines) THEN << >>
    ELSE LET differs == i >= Len(previousLines)
                        \/ previousLines[i + 1] # currentLines[i + 1]
             isNew == differs /\ ~Contains(previousLines, currentLines[i + 1])
         IN  (IF isNew THEN << i + 1 >> ELSE << >>)
                 \o AddedFrom(previousLines, currentLines, i + 1)

\* the loop without the "exists anywhere in previous" test
RECURSIVE AddedFrom_positional(_, _, _)
AddedFrom_positional(previousLines, currentLines, i) ==
    IF i >= Len(currentLines) THEN << >>
    ELSE LET differs == i >= Len(previousLines)
                        \/ previousLines[i + 1] # currentLines[i + 1]
         IN  (IF differs THEN << i + 1 >> ELSE << >>)
                 \o AddedFrom_positional(previousLines, currentLines, i + 1)

\* CalculateDiff comparing line by line only
CalculateDiff_positional(previous, current) ==
    [added |-> AddedFrom_positional(Split(previous), Split(current), 0), removed |-> << >>]

\* CalculateDiff reporting 0-indexed line numbers (added.Add(i))
CalculateDiff_zeroIndexed(previous, current) ==
    LET oneIndexed == AddedFrom(Split(previous), Split(current), 0)
    IN  [added |-> [k \in 1..Len(oneIndexed) |-> oneIndexed[k] - 1], removed |-> << >>]

CalculateDiff(previous, current) ==
    LET previousLines == Split(previous)
        currentLines == Split(current)
    IN  [added |-> AddedFrom(previousLines, currentLines, 0), removed |-> << >>]

----------------------------------------------------------------------------
(* Chat service (api/claude.ts)                                            *)

\* askClaude is not being called
NoCall == [nil |-> "none"]

\* no CodeViewer is looked at on its own
NoViewer == [nil |-> "none"]

\* a promise fulfilled with a value of the given JavaScript type
Fulfilled(type, value) == [state |-> "fulfilled", type |-> type, value |-> value]

\* a promise rejected with an error
Rejected(reason) == [state |-> "rejected", type |-> "error", value |-> reason]

\* the catch block: the fixed text 'Failed to connect to Claude. ...'
FailedToConnect == Fulfilled("string", "Failed to connect")

\* code.split('\n').filter(l => l.trim()) is not empty
HasNonBlankLine(code) ==
    LET lines == Split(code)
    IN  \E k \in 1..Len(lines) : Trim(lines[k]) # << >>

\* getMockResponse, by the words the question contains
getMockResponse(question, context) ==
    CASE question = "why" -> Fulfilled("string", "This change was made")
      [] question = "explain" -> Fulfilled("string", "In simple terms")
      [] question = "line" ->
            IF HasNonBlankLine(context.code)
            THEN Fulfilled("string", "The key line here is")
            ELSE Rejected("TypeError")
      [] OTHER -> Fulfilled("string", "Great question")

\* await response.json() on a response that is not OK, with
\* .catch(() => ({})): the error object the template reads
ErrorData(body) == IF body = "unparsable" THEN "{}" ELSE body

\* askClaude(question, context) with the API key of the build, the way the
\* fetch ends and the body of the response
askClaude(apiKey, fetched, body, question, context) ==
    IF apiKey = "" THEN getMockResponse(question, context)
    ELSE IF fetched = "networkError" THEN FailedToConnect
    ELSE IF fetched = "notOk"
         THEN IF ErrorData(body) = "null" THEN FailedToConnect
              ELSE IF ErrorData(body) = "{error:{message}}"
                   THEN Fulfilled("string", "Error: status - message")
                   ELSE Fulfilled("string", "Error: status - Unknown error")
         ELSE CASE body = "{content:[{text}]}" -> Fulfilled("string", "answer")
                [] body = "{content:[{}]}" -> Fulfilled("undefined", "undefined")
                [] OTHER -> FailedToConnect

----------------------------------------------------------------------------
(* Inputs                                                                  *)

ProjectIds == {"greeter", "calculator", "missing"}

LongestProject == IF GreeterStates > CalculatorStates THEN GreeterStates ELSE CalculatorStates

JumpArgs == (0 - MaxOvershoot)..(LongestProject - 1 + MaxOvershoot)

ErrorArgs == {NULL, "boom"}

\* no chat request is in flight
NoRequest == << >>

\* the state ids addChatMessage is called with
ChatStateIds == {0, 1}

\* ChatMessage (id and timestamp left out)
Messages == [role : {"user", "assistant"}, content : {"text"}, stateId : ChatStateIds]

RECURSIVE CountMessages(_, _)
CountMessages(history, keys) ==
    IF keys = {} THEN 0
    ELSE LET k == CHOOSE x \in keys : TRUE
         IN  Len(history[k]) + CountMessages(history, keys \ {k})

TotalMessages(history) == CountMessages(history, DOMAIN history)

\* the texts of the documented examples
ExampleTexts == { << "a", "\n", "b" >>, << "b", "\n", "a" >>,
                  << "a", "\n", "b", "\n", "c" >> }

Texts == TextsUpTo(MaxTextLen) \cup ExampleTexts

----------------------------------------------------------------------------
(* The store specification: any sequence of store operations               *)

Init ==
    /\ currentProject = InitialStore.currentProject
    /\ currentStateIndex = InitialStore.currentStateIndex
    /\ isLoading = InitialStore.isLoading
    /\ error = InitialStore.error
    /\ speed = InitialStore.speed
    /\ showDiff = InitialStore.showDiff
    /\ chatHistory = InitialStore.chatHistory
    /\ decorations = << >>
    /\ lastOp = [op |-> "init", arg |-> NULL]
    /\ storage = setItem(Hydrate(NoItem))
    /\ pending = NoRequest
    /\ askCall = NoCall
    /\ askResult = NoCall
    /\ viewer = NoViewer
    /\ previousCode = << >>
    /\ currentCode = << >>
    /\ diffResult = NullObject
    /\ diffPc = "idle"

\* set(...) followed by the re-render of the App
Commit(op, arg, new) ==
    /\ currentProject' = new.currentProject
    /\ currentStateIndex' = new.currentStateIndex
    /\ isLoading' = new.isLoading
    /\ error' = new.error
    /\ speed' = new.speed
    /\ showDiff' = new.showDiff
    /\ chatHistory' = new.chatHistory
    /\ decorations' = Render(Store, new, decorations)
    /\ lastOp' = [op |-> op, arg |-> arg]
    /\ storage' = setItem(new)
    /\ UNCHANGED << diffVars, claudeVars, viewer >>

\* a store operation called on its own
Call(op, arg, new) == Commit(op, arg, new) /\ UNCHANGED pending

LoadProject == \E projectId \in ProjectIds :
    Call("loadProject", projectId, loadProject(Store, projectId))

SetLoading == \E loading \in BOOLEAN :
    Call("setLoading", loading, setLoading(Store, loading))

SetError == \E e \in ErrorArgs :
    Call("setError", e, setError(Store, e))

NextState == Call("nextState", NULL, nextState(Store))

PrevState == Call("prevState", NULL, prevState(Store))

JumpToState == \E index \in JumpArgs :
    Call("jumpToState", index, jumpToState(Store, index))

SetSpeed == \E sp \in Speeds :
    Call("setSpeed", sp, setSpeed(Store, sp))

SetShowDiff == \E show \in BOOLEAN :
    Call("setShowDiff", show, setShowDiff(Store, show))

ToggleDiff == Call("toggleDiff", NULL, toggleDiff(Store))

AddChatMessage == \E message \in Messages :
    /\ TotalMessages(chatHistory) < MaxMessages
    /\ Call("addChatMessage", [stateId |-> message.stateId, message |-> message],
            addChatMessage(Store, message.stateId, message))

ClearChatHistory == Call("clearChatHistory", NULL, clearChatHistory(Store))

\* The application is started again: the store is created and hydrated from
\* localStorage; the App shows no code view until a project is loaded.
Reload ==
    LET new == Hydrate(storage)
    IN  /\ currentProject' = new.currentProject
        /\ currentStateIndex' = new.currentStateIndex
        /\ isLoading' = new.isLoading
        /\ error' = new.error
        /\ speed' = new.speed
        /\ showDiff' = new.showDiff
        /\ chatHistory' = new.chatHistory
        /\ decorations' = << >>
        /\ lastOp' = [op |-> "reload", arg |-> NULL]
        /\ storage' = setItem(new)
        /\ pending' = NoRequest
        /\ UNCHANGED << diffVars, claudeVars, viewer >>

Next ==
    \/ LoadProject
    \/ SetLoading
    \/ SetError
    \/ NextState
    \/ PrevState
    \/ JumpToState
    \/ SetSpeed
    \/ SetShowDiff
    \/ ToggleDiff
    \/ AddChatMessage
    \/ ClearChatHistory
    \/ Reload

Spec == Init /\ [][Next]_vars

----------------------------------------------------------------------------
(* The diff specification: CalculateDiff applied to any pair of texts      *)

DiffInit ==
    /\ currentProject = InitialStore.currentProject
    /\ currentStateIndex = InitialStore.currentStateIndex
    /\ isLoading = InitialStore.isLoading
    /\ error = InitialStore.error
    /\ speed = InitialStore.speed
    /\ showDiff = InitialStore.showDiff
    /\ chatHistory = InitialStore.chatHistory
    /\ decorations = << >>
    /\ lastOp = [op |-> "init", arg |-> NULL]
    /\ storage = setItem(Hydrate(NoItem))
    /\ pending = NoRequest
    /\ askCall = NoCall
    /\ askResult = NoCall
    /\ viewer = NoViewer
    /\ previousCode \in Texts
    /\ currentCode \in Texts
    /\ diffResult = NullObject
    /\ diffPc = "ready"

CalculateDiffCall ==
    /\ diffPc = "ready"
    /\ diffResult' = CalculateDiff(previousCode, currentCode)
    /\ diffPc' = "done"
    /\ UNCHANGED << previousCode, currentCode, storeVars, decorations, lastOp, storage, pending,
                    claudeVars, viewer >>

DiffNext == CalculateDiffCall

DiffSpec == DiffInit /\ [][DiffNext]_vars

----------------------------------------------------------------------------
(* The chat service specification: askClaude in any environment            *)

\* import.meta.env.VITE_CLAUDE_API_KEY: not set, or set
ApiKeys == {"", "key"}

\* fetch rejects, or resolves with a response that is OK or not
FetchOutcomes == {"networkError", "ok", "notOk"}

\* the body of the response: not JSON, or one of these JSON values
Bodies == {"unparsable", "null", "{}", "{error:{message}}", "{content:[]}",
           "{content:[{}]}", "{content:[{text}]}"}

\* the question, by the branch of getMockResponse its words select
Questions == {"why", "explain", "line", "other"}

\* the contexts handleSendMessage builds from the states of the greeter
ChatContexts ==
    { [code |-> StateAt("greeter", i).code, stateId |-> i, projectName |-> "greeter"] :
        i \in 0..(StatesLength("greeter") - 1) }

ClaudeInit ==
    /\ currentProject = InitialStore.currentProject
    /\ currentStateIndex = InitialStore.currentStateIndex
    /\ isLoading = InitialStore.isLoading
    /\ error = InitialStore.error
    /\ speed = InitialStore.speed
    /\ showDiff = InitialStore.showDiff
    /\ chatHistory = InitialStore.chatHistory
    /\ decorations = << >>
    /\ lastOp = [op |-> "init", arg |-> NULL]
    /\ storage = setItem(Hydrate(NoItem))
    /\ pending = NoRequest
    /\ askCall \in [apiKey : ApiKeys, fetched : FetchOutcomes, body : Bodies,
                     question : Questions, context : ChatContexts]
    /\ askResult = NoCall
    /\ viewer = NoViewer
    /\ previousCode = << >>
    /\ currentCode = << >>
    /\ diffResult = NullObject
    /\ diffPc = "idle"

AskClaudeCall ==
    /\ askResult = NoCall
    /\ askResult' = askClaude(askCall.apiKey, askCall.fetched, askCall.body,
                              askCall.question, askCall.context)
    /\ UNCHANGED << askCall, storeVars, decorations, lastOp, storage, pending,
                    diffVars, viewer >>

ClaudeNext == AskClaudeCall

ClaudeSpec == ClaudeInit /\ [][ClaudeNext]_vars

-----------------------------------------------------------------------------
(* The viewer specification: a CodeViewer on its own, given any code and   *)
(* any diff as props                                                       *)

ViewerChars == {"a", " ", "\n"}

\* the texts of at most n characters of ViewerChars
RECURSIVE ViewerTextsUpTo(_)
ViewerTextsUpTo(n) ==
    IF n = 0 THEN {<< >>}
    ELSE LET shorter == ViewerTextsUpTo(n - 1)
         IN  shorter \cup {Append(t, c) : t \in {s \in shorter : Len(s) = n - 1},
                                          c \in ViewerChars}

\* code: string
ViewerCodes == ViewerTextsUpTo(MaxViewerCodeLen)

\* the entries of diff.added: a line, blank, indented, followed by a blank or bare
AddedEntries == { << >>, << " " >>, << "a" >>, << " ", "a" >>, << "a", " " >> }

\* diff: Diff | null, with at most one entry in added
ViewerDiffs ==
    {NullObject} \cup {[added |-> << >>, removed |-> << >>]}
                \cup {[added |-> << entry >>, removed |-> << >>] : entry \in AddedEntries}

ViewerInit ==
    /\ currentProject = InitialStore.currentProject
    /\ currentStateIndex = InitialStore.currentStateIndex
    /\ isLoading = InitialStore.isLoading
    /\ error = InitialStore.error
    /\ speed = InitialStore.speed
    /\ showDiff = InitialStore.showDiff
    /\ chatHistory = InitialStore.chatHistory
    /\ decorations = << >>
    /\ lastOp = [op |-> "init", arg |-> NULL]
    /\ storage = setItem(Hydrate(NoItem))
    /\ pending = NoRequest
    /\ askCall = NoCall
    /\ askResult = NoCall
    /\ viewer \in [code : ViewerCodes, diff : ViewerDiffs, editorRef : {FALSE}]
    /\ previousCode = << >>
    /\ currentCode = << >>
    /\ diffResult = NULL
    /\ diffPc = "idle"

\* useEffect(..., [diff, code]) of a CodeViewer given other props: the effect
\* is skipped when the code string is equal and no diff object is passed
\* before or after (any two diff objects are different objects)
SamePropsOf(old, new) ==
    old.code = new.code /\ old.diff = NullObject /\ new.diff = NullObject

\* handleEditorMount, of the latest render: the editor is kept and the
\* highlights are applied
HandleEditorMount ==
    /\ ~viewer.editorRef
    /\ viewer' = [viewer EXCEPT !.editorRef = TRUE]
    /\ decorations' = applyDiffHighlights(viewer.code, viewer.diff)
    /\ lastOp' = [op |-> "handleEditorMount", arg |-> NULL]
    /\ UNCHANGED << storeVars, storage, pending, diffVars, claudeVars >>

\* the parent renders the viewer with other props; applyDiffHighlights
\* returns at once while there is no editor
ViewerRender == \E code \in ViewerCodes, diff \in ViewerDiffs :
    /\ viewer' = [viewer EXCEPT !.code = code, !.diff = diff]
    /\ decorations' = IF ~viewer.editorRef \/ SamePropsOf(viewer, viewer')
                      THEN decorations
                      ELSE applyDiffHighlights(code, diff)
    /\ lastOp' = [op |-> "render", arg |-> NULL]
    /\ UNCHANGED << storeVars, storage, pending, diffVars, claudeVars >>

ViewerNext ==
    \/ HandleEditorMount
    \/ ViewerRender

ViewerSpec == ViewerInit /\ [][ViewerNext]_vars

-----------------------------------------------------------------------------
(* The catalogue specification: the store over a record of projects that   *)
(* holds, next to the two of the store, a project with an empty states     *)
(* list and a project with a single state. The code view is not shown.     *)

anyProjects ==
    [ greeter    |-> greeterProject,
      calculator |-> calculatorProject,
      empty      |-> MakeProject("empty", 0),
      single     |-> MakeProject("single", 1) ]

CatalogueIds == (DOMAIN anyProjects) \cup {"missing"}

CatalogueCall(op, arg, new) ==
    /\ currentProject' = new.currentProject
    /\ currentStateIndex' = new.currentStateIndex
    /\ isLoading' = new.isLoading
    /\ error' = new.error
    /\ speed' = new.speed
    /\ showDiff' = new.showDiff
    /\ chatHistory' = new.chatHistory
    /\ lastOp' = [op |-> op, arg |-> arg]
    /\ storage' = setItem(new)
    /\ UNCHANGED << decorations, pending, diffVars, claudeVars, viewer >>

CatalogueLoadProject == \E projectId \in CatalogueIds :
    CatalogueCall("loadProject", projectId, loadProjectIn(anyProjects, Store, projectId))

CatalogueNextState ==
    CatalogueCall("nextState", NULL, nextStateIn(anyProjects, Store))

CataloguePrevState ==
    CatalogueCall("prevState", NULL, prevState(Store))

CatalogueJumpToState == \E index \in JumpArgs :
    CatalogueCall("jumpToState", index, jumpToStateIn(anyProjects, Store, index))

CatalogueSetSpeed == \E sp \in Speeds :
    CatalogueCall("setSpeed", sp, setSpeed(Store, sp))

CatalogueNext ==
    \/ CatalogueLoadProject
    \/ CatalogueNextState
    \/ CataloguePrevState
    \/ CatalogueJumpToState
    \/ CatalogueSetSpeed

CatalogueSpec == Init /\ [][CatalogueNext]_vars

----------------------------------------------------------------------------
(* The application specification: the App component and its chat flow      *)

\* what the awaited askClaude call can do: resolve with the answer of the
\* service, with an error text, with a mock response, or reject
Outcomes == {"answer", "error", "mock", "rejected"}

\* useEffect on mount: loadProject('greeter')
Mount ==
    /\ currentProject = NULL
    /\ Call("loadProject", "greeter", loadProject(Store, "greeter"))

\* what the user has typed into the chat box when pressing Send or Enter
ChatInputs == { << >>, << " " >>, << "a" >>, << " ", "a", " " >> }

\* handleSend that sends while a request is in flight
handleSendAccepts_always(input, loading) == Trim(input) # << >>

\* handleSend: if (!input.trim() || isLoading) return
handleSendAccepts(input, loading) == Trim(input) # << >> /\ ~loading

\* the state id the assistant message is filed under: the cursor of now
ReplyStateId_current(request, s) == s.currentStateIndex

\* the state id the assistant message is filed under: currentStateIndex as
\* captured by the handler when the message was sent
ReplyStateId(request, s) == request.stateId

\* handleSendMessage up to the await: the user message is added under the
\* current index, then isLoading is set
beforeAwait(s, message) ==
    LET userMessage == [role |-> "user", content |-> message,
                        stateId |-> s.currentStateIndex]
    IN  setLoading(addChatMessage(s, s.currentStateIndex, userMessage), TRUE)

\* handleSendMessage without its finally block
afterAwait_noFinally(s, request, outcome) ==
    IF outcome = "rejected" THEN s
    ELSE LET assistantMessage == [role |-> "assistant", content |-> << outcome >>,
                                  stateId |-> ReplyStateId(request, s)]
         IN  setLoading(addChatMessage(s, ReplyStateId(request, s), assistantMessage),
                        FALSE)

\* handleSendMessage after the await: the assistant message is added unless
\* the call rejected; finally isLoading is cleared
afterAwait(s, request, outcome) ==
    IF outcome = "rejected" THEN setLoading(s, FALSE)
    ELSE LET assistantMessage == [role |-> "assistant", content |-> << outcome >>,
                                  stateId |-> ReplyStateId(request, s)]
         IN  setLoading(addChatMessage(s, ReplyStateId(request, s), assistantMessage),
                        FALSE)

\* The user presses Send or Enter in the chat box: handleSend, and
\* handleSendMessage up to the await
SendMessage == \E input \in ChatInputs :
    /\ handleSendAccepts(input, isLoading)
    /\ currentProject # NULL
    /\ getCurrentState(Store) # UNDEFINED
    /\ TotalMessages(chatHistory) < MaxFlowMessages + Len(pending)
    /\ Commit("sendMessage", [stateId |-> currentStateIndex, input |-> input],
              beforeAwait(Store, Trim(input)))
    /\ pending' = Append(pending, [stateId |-> currentStateIndex,
                                   projectName |-> currentProject])

\* The awaited askClaude call of one of the requests in flight settles:
\* handleSendMessage after the await
ReceiveReply == \E i \in DOMAIN pending, outcome \in Outcomes :
    /\ Commit("receiveReply",
              [outcome |-> outcome, stateId |-> pending[i].stateId,
               projectName |-> pending[i].projectName],
              afterAwait(Store, pending[i], outcome))
    /\ pending' = [j \in 1..(Len(pending) - 1) |->
                      IF j < i THEN pending[j] ELSE pending[j + 1]]

AppNext ==
    \/ Mount
    \/ NextState
    \/ PrevState
    \/ JumpToState
    \/ SetSpeed
    \/ SendMessage
    \/ ReceiveReply

AppSpec == Init /\ [][AppNext]_vars

\* The chat flow with stepwise navigation, when every awaited askClaude call
\* settles: the continuation of handleSendMessage runs once its promise has
\* settled
FlowNext ==
    \/ Mount
    \/ NextState
    \/ PrevState
    \/ SendMessage
    \/ ReceiveReply

FlowSpec == Init /\ [][FlowNext]_vars /\ WF_vars(ReceiveReply)

----------------------------------------------------------------------------
(* The application with the project selector of the control panel          *)

\* const availableProjects
availableProjects == {"greeter", "calculator"}

\* onProjectChange(e.target.value): the course chosen in the selector is loaded
ChangeProject == \E projectId \in availableProjects :
    /\ currentProject # NULL
    /\ Call("loadProject", projectId, loadProject(Store, projectId))

SelectorNext ==
    \/ Mount
    \/ ChangeProject
    \/ NextState
    \/ PrevState
    \/ SendMessage
    \/ ReceiveReply

SelectorSpec == Init /\ [][SelectorNext]_vars

----------------------------------------------------------------------------
(* The chat history specification: addChatMessage with any state id        *)

ChatAddMessage == \E stateId \in ChatStateIds, message \in Messages :
    /\ TotalMessages(chatHistory) < MaxChatMessages
    /\ Call("addChatMessage", [stateId |-> stateId, message |-> message],
            addChatMessage(Store, stateId, message))

ChatNext ==
    \/ ChatAddMessage
    \/ ClearChatHistory
    \/ LoadProject

ChatSpec == Init /\ [][ChatNext]_vars

----------------------------------------------------------------------------
(* Navigation cursor                                                       *)

LastIndex == StatesLength(currentProject) - 1

\* C1: whenever a project is loaded, after any sequence of store operations
\* (nextState, prevState, jumpToState with any index, loadProject, ...)
\* currentStateIndex is in [0, states.length - 1].
C1_CursorInRange ==
    currentProject # NULL => currentStateIndex \in 0..LastIndex

\* jumpToState was just called with an over-large index on the calculator,
\* whose cursor stands on the last state.
C1_Witness ==
    /\ lastOp.op = "jumpToState"
    /\ lastOp.arg = CalculatorStates
    /\ currentProject = "calculator"
    /\ currentStateIndex = CalculatorStates - 1

\* C2: a jumpToState(index) step sets currentStateIndex to index when
\* 0 <= index < states.length and changes no other field; for any other
\* index (or with no project) the whole store, error included, stays as it was.
C2_JumpToStateContract ==
    [][ lastOp'.op = "jumpToState" =>
          LET index == lastOp'.arg
          IN  IF currentProject # NULL /\ 0 <= index /\ index < StatesLength(currentProject)
              THEN Store' = [Store EXCEPT !.currentStateIndex = index]
              ELSE Store' = Store ]_vars

\* jumpToState(-1) was just called on a loaded project whose cursor is not at
\* 0 and which holds an error and a chat message; the cursor did not move to 0.
C2_Witness ==
    /\ lastOp.op = "jumpToState"
    /\ lastOp.arg = -1
    /\ currentProject = "greeter"
    /\ currentStateIndex = 3
    /\ error # NULL
    /\ chatHistory # EmptyMap

\* C3: with a project loaded, a nextState step at the last index leaves
\* currentStateIndex unchanged and at any other index adds exactly 1; a
\* prevState step at index 0 leaves it unchanged and at any other index
\* subtracts exactly 1.
C3_StepContract ==
    [][ /\ (lastOp'.op = "nextState" /\ currentProject # NULL) =>
              currentStateIndex' = IF currentStateIndex = LastIndex
                                   THEN currentStateIndex
                                   ELSE currentStateIndex + 1
        /\ (lastOp'.op = "prevState" /\ currentProject # NULL) =>
              currentStateIndex' = IF currentStateIndex = 0
                                   THEN currentStateIndex
                                   ELSE currentStateIndex - 1 ]_vars

\* nextState was just called and the cursor stands on the greeter's last state.
C3_Witness ==
    /\ lastOp.op = "nextState"
    /\ currentProject = "greeter"
    /\ currentStateIndex = GreeterStates - 1

\* C4: a loadProject step with a known id makes that project current and
\* sets currentStateIndex to 0 whatever it was; from then on jumpToState
\* accepts exactly the indices of the newly loaded project.
C4_LoadResetsCursor ==
    [][ (lastOp'.op = "loadProject" /\ lastOp'.arg \in DOMAIN projects) =>
          /\ currentProject' = lastOp'.arg
          /\ currentStateIndex' = 0
          /\ \A index \in JumpArgs :
                jumpToState(Store', index).currentStateIndex =
                    IF index \in 0..(StatesLength(lastOp'.arg) - 1) THEN index ELSE 0 ]_vars

\* The greeter was just loaded: the cursor is 0 and index 7, valid for the
\* calculator, is refused.
C4_Witness ==
    /\ lastOp.op = "loadProject"
    /\ lastOp.arg = "greeter"
    /\ currentProject = "greeter"
    /\ currentStateIndex = 0
    /\ jumpToState(Store, GreeterStates).currentStateIndex = 0
    /\ jumpToState(Store, GreeterStates - 1).currentStateIndex = GreeterStates - 1

\* C5: in every reachable store state, with or without a project,
\* nextState has the effect of jumpToState(currentStateIndex + 1) and
\* prevState the effect of jumpToState(currentStateIndex - 1).
C5_StepIsJump ==
    /\ nextState(Store) = jumpToState(Store, currentStateIndex + 1)
    /\ prevState(Store) = jumpToState(Store, currentStateIndex - 1)

\* prevState was just called and the cursor stands on index 0 of a loaded
\* project, where jumpToState(-1) is refused.
C5_Witness ==
    /\ lastOp.op = "prevState"
    /\ currentProject = "calculator"
    /\ currentStateIndex = 0

\* C6: a loadProject step with an id that has no project data sets the
\* error field to "Project not found: <id>" and leaves currentProject,
\* currentStateIndex and chatHistory as they were.
C6_LoadUnknownProject ==
    [][ (lastOp'.op = "loadProject" /\ lastOp'.arg \notin DOMAIN projects) =>
          /\ error' = NotFound(lastOp'.arg)
          /\ error' # NULL
          /\ currentProject' = currentProject
          /\ currentStateIndex' = currentStateIndex
          /\ chatHistory' = chatHistory ]_vars

\* loadProject("missing") was just called on the calculator at index 5 with
\* a chat message stored: the error is set and the rest is still there.
C6_Witness ==
    /\ lastOp.op = "loadProject"
    /\ lastOp.arg = "missing"
    /\ error = "Project not found: missing"
    /\ currentProject = "calculator"
    /\ currentStateIndex = 5
    /\ chatHistory # EmptyMap

----------------------------------------------------------------------------
(* Diff calculator                                                         *)

previousLines == Split(previousCode)
currentLines == Split(currentCode)

\* the set of line numbers CalculateDiff returned as added
AddedNumbers == Range(diffResult.added)

\* the texts of the lines CalculateDiff returned as added, in its order
AddedTexts == [k \in 1..Len(diffResult.added) |-> currentLines[diffResult.added[k]]]

TrimmedInPrevious(line) ==
    \E k \in 1..Len(previousLines) : Trim(previousLines[k]) = Trim(line)

Occurrences(lines, line) == Cardinality({k \in 1..Len(lines) : lines[k] = line})

\* current is a pure reordering of the lines of previous
IsReordering ==
    /\ Len(currentLines) = Len(previousLines)
    /\ \A line \in Range(currentLines) \cup Range(previousLines) :
          Occurrences(currentLines, line) = Occurrences(previousLines, line)

TextAB == << "a", "\n", "b" >>
TextBA == << "b", "\n", "a" >>
TextABC == << "a", "\n", "b", "\n", "c" >>

\* C7 as stated: no line of current whose trimmed content equals the trimmed
\* content of some line of previous is returned as added.
C7_TrimmedNeverAdded ==
    diffPc = "done" =>
        \A i \in 1..Len(currentLines) :
            TrimmedInPrevious(currentLines[i]) => i \notin AddedNumbers

\* C7 amended: no line of current that equals some line of previous
\* character for character (no trimming), at whatever position, is returned
\* as added; a pure reordering of previous's lines gives no added line.
C7_VerbatimNeverAdded ==
    diffPc = "done" =>
        /\ \A i \in 1..Len(currentLines) :
              Contains(previousLines, currentLines[i]) => i \notin AddedNumbers
        /\ IsReordering => diffResult.added = << >>

\* CalculateDiff("a\nb", "b\na") returned no added line.
C7_Witness ==
    /\ diffPc = "done"
    /\ previousCode = TextAB
    /\ currentCode = TextBA
    /\ diffResult.added = << >>

\* C8 as stated: the added lines are exactly the lines of current, in
\* their order in current, whose trimmed content is not found among the
\* (trimmed) lines of previous.
C8_AddedAreUntrimmedNew ==
    diffPc = "done" =>
        AddedTexts = SelectSeq(currentLines, LAMBDA line : ~TrimmedInPrevious(line))

\* C8 amended: CalculateDiff returns the 1-based line numbers, in increasing
\* order, of exactly the lines of current whose untrimmed content is no line
\* of previous; "a\nb" and "a\nb\nc" give [3], the line "c".
C8_AddedLineNumbers ==
    diffPc = "done" =>
        /\ AddedNumbers = {i \in 1..Len(currentLines) :
                              currentLines[i] \notin Range(previousLines)}
        /\ \A k \in 1..(Len(diffResult.added) - 1) :
              diffResult.added[k] < diffResult.added[k + 1]
        /\ (previousCode = TextAB /\ currentCode = TextABC) =>
              (diffResult.added = << 3 >> /\ AddedTexts = << << "c" >> >>)

\* CalculateDiff("a\nb", "a\nb\nc") returned [3].
C8_Witness ==
    /\ diffPc = "done"
    /\ previousCode = TextAB
    /\ currentCode = TextABC
    /\ diffResult.added = << 3 >>

----------------------------------------------------------------------------
(* Code view                                                               *)

\* C10: state 0 of every project has a null diff, and whenever the cursor of
\* a loaded project is at 0 the code view decorates no line as added.
C10_FirstStateNoDiff ==
    /\ \A pid \in DOMAIN projects : StateAt(pid, 0).diff = NullObject
    /\ (currentProject # NULL /\ currentStateIndex = 0) =>
          (ViewerDiff(Store) = NullObject /\ decorations = << >>)

\* prevState just brought the calculator's cursor back to 0 and the
\* decoration of state 1 is gone.
C10_Witness ==
    /\ lastOp.op = "prevState"
    /\ currentProject = "calculator"
    /\ currentStateIndex = 0
    /\ decorations = << >>
    /\ viewerHighlights["calculator"][2] = << 2 >>

----------------------------------------------------------------------------
(* Explanations                                                            *)

\* the text stored for the current level in the current state of the loaded project
StoredExplanation ==
    projects[currentProject].states[currentStateIndex + 1].speedExplanations[speed]

\* C11: for every loaded project, cursor position and level, getExplanation
\* returns exactly the text stored in the current state's speedExplanations
\* for the current level; a text stored empty is returned empty, there is no
\* fallback to another level.
C11_ExplanationIsStored ==
    currentProject # NULL => getExplanation(Store) = StoredExplanation

\* setSpeed("low") at greeter's state 2, whose low-level text is stored empty
\* while its medium text is not: the explanation is the empty string.
C11_Witness ==
    /\ lastOp = [op |-> "setSpeed", arg |-> "low"]
    /\ currentProject = "greeter"
    /\ currentStateIndex = 2
    /\ StoredExplanation = EmptyString
    /\ StateAt("greeter", 2).speedExplanations["medium"] # EmptyString
    /\ getExplanation(Store) = EmptyString

----------------------------------------------------------------------------
(* Persisted preferences                                                   *)

\* C12: the preferences round-trip through the storage: in every state,
\* loading what was saved yields the current (speed, showDiff), and saving the
\* loaded value again leaves the stored item as it is.
C12_PreferenceRoundTrip ==
    LET loaded == Hydrate(storage)
    IN  /\ loaded.speed = speed
        /\ loaded.showDiff = showDiff
        /\ setItem(loaded) = storage

\* setShowDiff(false) was saved while the level is high: both non-default
\* values are in the stored item.
C12_Witness ==
    /\ lastOp = [op |-> "setShowDiff", arg |-> FALSE]
    /\ speed = "high"
    /\ storage = << "speed", "\"high\"", "showDiff", "false" >>
    /\ Hydrate(storage).showDiff = FALSE

\* C13: the first run starts with level medium and the diff visible, and
\* every later start restores both fields to the values the previous session
\* left.
C13_DefaultsThenRestored ==
    /\ (speed = "medium" /\ showDiff = TRUE)
    /\ [][lastOp'.op = "reload" => (speed' = speed /\ showDiff' = showDiff)]_vars

\* A session that left level low and the diff hidden was started again.
C13_Witness ==
    /\ lastOp.op = "reload"
    /\ speed = "low"
    /\ showDiff = FALSE
    /\ currentProject = NULL

----------------------------------------------------------------------------
(* Navigation controls                                                     *)

\* C14: in every state isFirstState is true exactly when prevState would
\* change nothing and isLastState is true exactly when nextState would change
\* nothing; the Prev and Next buttons shown for a loaded project are disabled
\* in exactly these cases.
C14_DisabledExactlyAtBoundaries ==
    /\ isFirstState(Store) <=> (prevState(Store) = Store)
    /\ isLastState(Store) <=> (nextState(Store) = Store)
    /\ currentProject # NULL =>
          /\ NavigatorIsFirst(Store) <=> (prevState(Store) = Store)
          /\ NavigatorIsLast(Store) <=> (nextState(Store) = Store)

\* nextState reached the last state of greeter: Next is disabled and a
\* further nextState changes nothing, Prev is enabled and prevState moves.
C14_Witness ==
    /\ lastOp.op = "nextState"
    /\ currentProject = "greeter"
    /\ currentStateIndex = GreeterStates - 1
    /\ isLastState(Store) /\ NavigatorIsLast(Store)
    /\ nextState(Store) = Store
    /\ ~isFirstState(Store) /\ ~NavigatorIsFirst(Store)
    /\ prevState(Store) # Store

----------------------------------------------------------------------------
(* Diff visibility                                                         *)

\* C15: whenever showDiff is false the code view receives no diff and
\* decorates no line as added, at every cursor position.
C15_HiddenDiffNotShown ==
    (ViewerMounted(Store) /\ ~showDiff) =>
        (ViewerDiff(Store) = NullObject /\ decorations = << >>)

----------------------------------------------------------------------------
(* Chat history                                                            *)

\* C16: each state id has its own history: addChatMessage(k, m) appends m at
\* the end of what getChatMessages(k) returned and leaves what
\* getChatMessages returns for every other state id unchanged, so
\* getChatMessages(k) is the messages added with k, in the order added.
C16_PerStateChatHistory ==
    [][lastOp'.op = "addChatMessage" =>
          LET k == lastOp'.arg.stateId
              m == lastOp'.arg.message
          IN  /\ getChatMessagesOf(chatHistory', k)
                    = Append(getChatMessages(Store, k), m)
              /\ \A j \in ChatStateIds \ {k} :
                    getChatMessagesOf(chatHistory', j) = getChatMessages(Store, j)
    ]_vars

\* Three messages were added, the second one under another state id: state 0
\* holds the user message and then the assistant message, state 1 holds one.
C16_Witness ==
    /\ lastOp.op = "addChatMessage"
    /\ lastOp.arg.stateId = 0
    /\ Len(getChatMessages(Store, 0)) = 2
    /\ getChatMessages(Store, 0)[1].role = "user"
    /\ getChatMessages(Store, 0)[2].role = "assistant"
    /\ Len(getChatMessages(Store, 1)) = 1

----------------------------------------------------------------------------
(* Frame of the cursor                                                     *)

\* the store record has the cursor and the project of the current state
KeepsCursor(new) ==
    LET s == new
    IN  /\ s.currentProject = currentProject
        /\ s.currentStateIndex = currentStateIndex

\* none of the preference, chat and status operations, called in the current
\* state with any argument, moves the cursor or changes the project
StoreOpsKeepCursor ==
    LET s == Store
    IN  /\ \A sp \in Speeds : KeepsCursor(setSpeed(s, sp))
        /\ \A show \in BOOLEAN : KeepsCursor(setShowDiff(s, show))
        /\ KeepsCursor(toggleDiff(s))
        /\ \A message \in Messages :
              KeepsCursor(addChatMessage(s, message.stateId, message))
        /\ KeepsCursor(clearChatHistory(s))
        /\ \A loading \in BOOLEAN : KeepsCursor(setLoading(s, loading))
        /\ \A e \in ErrorArgs : KeepsCursor(setError(s, e))

\* C17: only navigation and project load move the cursor: in every state of
\* the application setSpeed, setShowDiff, toggleDiff, addChatMessage,
\* clearChatHistory, setLoading and setError leave currentStateIndex and
\* currentProject as they are, and so does every step of the chat send flow
\* (sending, and receiving an answer, an error text, a mock response or a
\* rejection) and every change of the level made from the control panel.
C17_CursorFrame ==
    /\ []StoreOpsKeepCursor
    /\ [][lastOp'.op \in {"sendMessage", "receiveReply", "setSpeed"}
             => UNCHANGED << currentProject, currentStateIndex >>]_vars

\* A message was sent at state 0, the user moved to state 3 while the request
\* was in flight, and the error text that came back was filed under state 0:
\* the cursor is still at 3.
C17_Witness ==
    /\ lastOp.op = "receiveReply"
    /\ lastOp.arg.outcome = "error"
    /\ currentProject = "greeter"
    /\ currentStateIndex = 3
    /\ Len(getChatMessages(Store, 0)) = 2
    /\ getChatMessages(Store, 0)[2].content = << "error" >>
    /\ ~isLoading

----------------------------------------------------------------------------
(* Frame of the preferences                                                *)

\* C18: nextState, prevState, jumpToState and loadProject, whether the
\* project exists or not, leave speed and showDiff unchanged; loading a
\* project sets the cursor to 0 and keeps both preferences.
C18_PreferencesFrame ==
    [][/\ lastOp'.op \in {"nextState", "prevState", "jumpToState", "loadProject"}
            => (speed' = speed /\ showDiff' = showDiff)
       /\ (lastOp'.op = "loadProject" /\ lastOp'.arg \in DOMAIN projects)
            => (currentStateIndex' = 0 /\ speed' = speed /\ showDiff' = showDiff)
    ]_vars

\* The calculator was loaded in a session whose level is high and whose diff
\* is hidden: the cursor is at 0, the preferences are not the defaults.
C18_Witness ==
    /\ lastOp = [op |-> "loadProject", arg |-> "calculator"]
    /\ currentProject = "calculator"
    /\ currentStateIndex = 0
    /\ speed = "high"
    /\ showDiff = FALSE

----------------------------------------------------------------------------
(* The diff on display                                                     *)

----------------------------------------------------------------------------
(* Chat send flow                                                          *)

\* the last element of a non-empty sequence
Last(seq) == seq[Len(seq)]

\* C22: sending appends the user's message under the current index at the
\* moment the request goes out; a reply that is not a rejection is appended
\* under the index of the request, right after the user's message, wherever
\* the cursor is by then.
C22_FiledUnderSendIndex ==
    [][/\ lastOp'.op = "sendMessage" =>
            /\ getChatMessagesOf(chatHistory', currentStateIndex)
                  = Append(getChatMessages(Store, currentStateIndex),
                           [role |-> "user", content |-> Trim(lastOp'.arg.input),
                            stateId |-> currentStateIndex])
            /\ Len(pending') = Len(pending) + 1
            /\ Last(pending').stateId = currentStateIndex
       /\ (lastOp'.op = "receiveReply" /\ lastOp'.arg.outcome # "rejected") =>
            LET k == lastOp'.arg.stateId
            IN  /\ getChatMessages(Store, k) # << >>
                /\ Last(getChatMessages(Store, k)).role = "user"
                /\ getChatMessagesOf(chatHistory', k)
                      = Append(getChatMessages(Store, k),
                               [role |-> "assistant",
                                content |-> << lastOp'.arg.outcome >>,
                                stateId |-> k])
    ]_vars

\* The question was sent at state 2 and answered while the cursor was at 5:
\* state 2 holds the question and then the answer, state 5 holds nothing.
C22_Witness ==
    /\ lastOp.op = "receiveReply"
    /\ lastOp.arg.outcome = "answer"
    /\ lastOp.arg.stateId = 2
    /\ currentStateIndex = 5
    /\ Len(getChatMessages(Store, 2)) = 2
    /\ getChatMessages(Store, 2)[1].role = "user"
    /\ getChatMessages(Store, 2)[2].role = "assistant"
    /\ getChatMessages(Store, 5) = << >>


\* C23: whenever isLoading is true it is false again later, provided the
\* awaited call settles; and every settling, be it an answer, an error text,
\* a mock response or a rejection, leaves isLoading false.
C23_LoadingEnds ==
    /\ isLoading ~> ~isLoading
    /\ [][lastOp'.op = "receiveReply" => ~isLoading']_vars

\* The call of a message sent at state 1 rejected: no assistant message was
\* added and isLoading is false again.
C23_Witness ==
    /\ lastOp.op = "receiveReply"
    /\ lastOp.arg.outcome = "rejected"
    /\ lastOp.arg.stateId = 1
    /\ Len(getChatMessages(Store, 1)) = 1
    /\ ~isLoading
    /\ pending = NoRequest


\* every user message in the history has a text that is trimmed and not empty
UserMessagesNotBlank ==
    \A k \in DOMAIN chatHistory : \A n \in 1..Len(chatHistory[k]) :
        chatHistory[k][n].role = "user" =>
            /\ chatHistory[k][n].content # << >>
            /\ Trim(chatHistory[k][n].content) = chatHistory[k][n].content

\* C25: at most one chat request is in flight at any time, and exactly while
\* isLoading is true; the chat box sends only when isLoading is false and the
\* input has a character that is not whitespace.
C25_OneRequestAtATime ==
    /\ [](Len(pending) <= 1 /\ (isLoading <=> pending # NoRequest)
          /\ UserMessagesNotBlank)
    /\ [][lastOp'.op = "sendMessage" =>
             /\ ~isLoading
             /\ pending = NoRequest
             /\ Trim(lastOp'.arg.input) # << >>]_vars

\* " a " was sent (as "a") and its request is in flight: the chat box now
\* refuses the text "a", which it accepts when nothing is loading.
C25_Witness ==
    /\ lastOp.op = "sendMessage"
    /\ lastOp.arg.input = << " ", "a", " " >>
    /\ isLoading
    /\ Len(pending) = 1
    /\ Last(getChatMessages(Store, currentStateIndex)).content = << "a" >>
    /\ ~handleSendAccepts(<< "a" >>, isLoading)
    /\ handleSendAccepts(<< "a" >>, FALSE)
    /\ ~handleSendAccepts(<< " " >>, FALSE)


\* every key of the chat history is an index of a state of the loaded project
ChatKeysValid ==
    \A k \in DOMAIN chatHistory :
        /\ currentProject # NULL
        /\ k \in 0..(StatesLength(currentProject) - 1)

\* C24: a reply that arrives after a project was loaded does not enter the
\* new session: every key of chatHistory is always an index of a state of
\* the loaded project, and every reply that is stored was asked about the
\* project that is loaded when it is stored.
C24_NoLateReplyInNewSession ==
    /\ []ChatKeysValid
    /\ [][(lastOp'.op = "receiveReply" /\ lastOp'.arg.outcome # "rejected")
             => lastOp'.arg.projectName = currentProject']_vars

----------------------------------------------------------------------------
(* Chat service                                                            *)

\* C21: whatever askClaude meets (no API key, a response that is not OK, an
\* error body that cannot be parsed, a network failure, a malformed success
\* body, a success), the promise it returns is fulfilled with a text and is
\* never rejected.
C21_AlwaysResolvesToText ==
    askResult # NoCall =>
        (askResult.state = "fulfilled" /\ askResult.type = "string")

----------------------------------------------------------------------------
(* Reload                                                                  *)

\* C26: a reload of the application restores speed and showDiff and nothing
\* else: whatever the session held, afterwards no project is loaded, the
\* cursor is 0, error is null, nothing is loading and the chat history is
\* empty.
C26_OnlyPreferencesSurviveReload ==
    [][lastOp'.op = "reload" =>
          /\ speed' = speed
          /\ showDiff' = showDiff
          /\ currentProject' = NULL
          /\ currentStateIndex' = 0
          /\ error' = NULL
          /\ isLoading' = FALSE
          /\ chatHistory' = EmptyMap
    ]_vars

\* The application was reloaded with level high and the diff hidden in the
\* storage: these two are back, the rest is the initial state.
C26_Witness ==
    /\ lastOp.op = "reload"
    /\ storage = << "speed", "\"high\"", "showDiff", "false" >>
    /\ speed = "high"
    /\ ~showDiff
    /\ Store = [InitialStore EXCEPT !.speed = "high", !.showDiff = FALSE]

----------------------------------------------------------------------------
(* Reachability of the states                                              *)

\* the store after nextState was called n times
RECURSIVE NextTimes(_, _)
NextTimes(s, n) == IF n = 0 THEN s ELSE nextState(NextTimes(s, n - 1))

\* the store after prevState was called n times
RECURSIVE PrevTimes(_, _)
PrevTimes(s, n) == IF n = 0 THEN s ELSE prevState(PrevTimes(s, n - 1))

\* C27: with a project loaded, from any cursor position every later index is
\* reached by repeating nextState and every earlier one by repeating
\* prevState; states.length - 1 calls of nextState end at the last index and
\* of prevState at 0, where a further call changes nothing; and when the
\* project has more than one state, nextState or prevState moves the cursor.
C27_EveryStateReachable ==
    currentProject # NULL =>
        LET n == StatesLength(currentProject)
            atLast == NextTimes(Store, n - 1)
            atFirst == PrevTimes(Store, n - 1)
        IN  /\ \A j \in currentStateIndex..(n - 1) :
                  NextTimes(Store, j - currentStateIndex).currentStateIndex = j
            /\ \A j \in 0..currentStateIndex :
                  PrevTimes(Store, currentStateIndex - j).currentStateIndex = j
            /\ atLast.currentStateIndex = n - 1
            /\ nextState(atLast) = atLast
            /\ atFirst.currentStateIndex = 0
            /\ prevState(atFirst) = atFirst
            /\ n > 1 => (nextState(Store) # Store \/ prevState(Store) # Store)

\* The calculator's cursor is at 5, in the middle: seven calls of nextState
\* lead to the last state 12, five calls of prevState lead to state 0.
C27_Witness ==
    /\ currentProject = "calculator"
    /\ currentStateIndex = 5
    /\ lastOp.op = "prevState"
    /\ NextTimes(Store, 7).currentStateIndex = CalculatorStates - 1
    /\ NextTimes(Store, 6).currentStateIndex # CalculatorStates - 1
    /\ PrevTimes(Store, 5).currentStateIndex = 0
    /\ PrevTimes(Store, 4).currentStateIndex # 0

-----------------------------------------------------------------------------
(* The cursor and the computed getters                                     *)

\* C28 as stated: whenever a project is loaded getCurrentState returns one of
\* its states, never undefined, also for a project with an empty states
\* list; with no project loaded getCurrentState returns null, getExplanation
\* the empty string and getTotalStates 0.
C28_CursorDesignatesState ==
    /\ currentProject # NULL =>
           /\ getCurrentStateIn(anyProjects, Store) # UNDEFINED
           /\ getCurrentStateIn(anyProjects, Store) \in Range(anyProjects[currentProject].states)
    /\ currentProject = NULL =>
           /\ getCurrentStateIn(anyProjects, Store) = NullObject
           /\ getExplanationIn(anyProjects, Store) = EmptyString
           /\ getTotalStatesIn(anyProjects, Store) = 0

\* C28: whenever a project with at least one state is loaded getCurrentState
\* returns the state of that project at the cursor, never undefined; for a
\* loaded project with an empty states list the cursor is 0, getCurrentState
\* returns undefined and getExplanation the empty string; with no project
\* loaded getCurrentState returns null, getExplanation the empty string and
\* getTotalStates 0.
C28_CursorDesignatesStateIfAny ==
    /\ (currentProject # NULL /\ getTotalStatesIn(anyProjects, Store) > 0) =>
           /\ currentStateIndex \in 0..(getTotalStatesIn(anyProjects, Store) - 1)
           /\ getCurrentStateIn(anyProjects, Store)
                  = anyProjects[currentProject].states[currentStateIndex + 1]
           /\ getCurrentStateIn(anyProjects, Store) # UNDEFINED
           /\ getExplanationIn(anyProjects, Store)
                  = getCurrentStateIn(anyProjects, Store).speedExplanations[speed]
    /\ (currentProject # NULL /\ getTotalStatesIn(anyProjects, Store) = 0) =>
           /\ currentStateIndex = 0
           /\ getCurrentStateIn(anyProjects, Store) = UNDEFINED
           /\ getExplanationIn(anyProjects, Store) = EmptyString
    /\ currentProject = NULL =>
           /\ getCurrentStateIn(anyProjects, Store) = NullObject
           /\ getExplanationIn(anyProjects, Store) = EmptyString
           /\ getTotalStatesIn(anyProjects, Store) = 0

\* a jump past the only state of a project was ignored
C28_Witness ==
    /\ currentProject = "single"
    /\ lastOp.op = "jumpToState"
    /\ lastOp.arg = 1
    /\ getTotalStatesIn(anyProjects, Store) = 1
    /\ getCurrentStateIn(anyProjects, Store) = anyProjects["single"].states[1]

-----------------------------------------------------------------------------
(* The result of loading a project                                         *)

\* the fields loadProject writes when the project exists
LoadedFields(s) ==
    << s.currentProject, s.currentStateIndex, s.chatHistory, s.error >>

\* C29: from every reachable store state, loadProject with the id of a project
\* of the store gives the same result in the fields it writes as from the
\* initial state: that project is current, the cursor is 0, the chat history
\* is empty and error is null; the other fields are kept; this is so also
\* when the project is the one already loaded, and loading it once more
\* changes nothing.
C29_LoadResultIndependentOfPriorState ==
    \A projectId \in DOMAIN projects :
        LET new == loadProject(Store, projectId)
        IN  /\ LoadedFields(new) = << projectId, 0, EmptyMap, NULL >>
            /\ LoadedFields(new) = LoadedFields(loadProject(InitialStore, projectId))
            /\ new = [Store EXCEPT !.currentProject = projectId,
                                   !.currentStateIndex = 0,
                                   !.chatHistory = EmptyMap,
                                   !.error = NULL]
            /\ loadProject(new, projectId) = new

\* The calculator is loaded, the cursor is at 5, a message is stored and an
\* error is set: loading the calculator again resets all three.
C29_Witness ==
    /\ currentProject = "calculator"
    /\ currentStateIndex = 5
    /\ chatHistory # EmptyMap
    /\ error = "boom"
    /\ loadProject(Store, "calculator") # Store
    /\ LoadedFields(loadProject(Store, "calculator")) = << "calculator", 0, EmptyMap, NULL >>

-----------------------------------------------------------------------------
(* The lines marked as added                                               *)

\* line n of the code is one that the diff lists as added, whitespace aside
ListedAsAdded(code, diff, n) ==
    /\ diff # NullObject
    /\ \E k \in 1..Len(diff.added) : Trim(diff.added[k]) = Trim(Split(code)[n])

====
